---- MODULE Spec2Model ----
(***************************************************************************)
(* flask_security.datastore: the identity service (UserDatastore) over two *)
(* membership representations.  `emb` is a backend that keeps membership   *)
(* as the lists user.roles / user.groups (UserDatastore's own methods, as  *)
(* inherited by SQLAlchemyUserDatastore and MongoEngineUserDatastore);     *)
(* `lnk` is PeeweeUserDatastore, which keeps UserRole / UserGroup rows.    *)
(* Every call is issued to both backends with the same arguments.  `last`  *)
(* is the last operation called and what it returned, `got` the last       *)
(* lookup made since then and what it returned.  `callers` are two callers *)
(* of find_or_create_role that run at the same time: where each is in the  *)
(* method, and what it found.                                              *)
(***************************************************************************)
EXTENDS Integers, Sequences, FiniteSets, Bags, TLC

VARIABLES emb, lnk, last, got, callers

vars == <<emb, lnk, last, got, callers>>

(***************************************************************************)
(* Bounds and input sets.  Text is a tuple of characters, so that the      *)
(* case-insensitive matching of get_user can be computed.                  *)
(***************************************************************************)
MaxListLen == 2

Emails == {<<"a">>}
TwoEmails == {<<"a">>, <<"b">>}
\* an address that no user is ever given
NoSuchEmail == <<"z">>
RoleNames == {"admin"}
GroupNames == {"staff"}
\* a name that no role and no group is ever given
NoSuchName == "nosuch"

\* Python's None where an entity (a primary key) is expected; keys start at 1.
None == 0
\* An attribute that was not given to the constructor.
NoText == <<>>
ActiveArgs == {"unset", "True", "False"}

SeqsUpTo(S, n) == UNION {[1..k -> S] : k \in 0..n}

(***************************************************************************)
(* Arguments that are "a concrete entity or a name string".                *)
(***************************************************************************)
EntityRef(k) == [isName |-> FALSE, id |-> k, name |-> "", text |-> NoText]
RoleNameRef(s) == [isName |-> TRUE, id |-> None, name |-> s, text |-> NoText]
UserNameRef(e) == [isName |-> TRUE, id |-> None, name |-> "", text |-> e]
NoRef == [isName |-> FALSE, id |-> None, name |-> "", text |-> NoText]

(***************************************************************************)
(* Return values: a tag, and the key of the entity returned (if one is).   *)
(***************************************************************************)
Ret(tag) == [tag |-> tag, id |-> None]
RetEntity(k) == IF k = None THEN Ret("None") ELSE [tag |-> "entity", id |-> k]
IsError(rv) == rv.tag \in {"AttributeError", "DoesNotExist", "IntegrityError"}

InList(x, seq) == \E i \in 1..Len(seq) : seq[i] = x
Count(x, seq) == Cardinality({i \in 1..Len(seq) : seq[i] = x})
\* list.remove(x): drops the first occurrence only
RemoveFirst(seq, x) ==
    LET i == CHOOSE j \in 1..Len(seq) :
                 seq[j] = x /\ \A k \in 1..(j - 1) : seq[k] # x
    IN  SubSeq(seq, 1, i - 1) \o SubSeq(seq, i + 1, Len(seq))
\* A join table is the bag of its rows.  INSERT adds one row, SELECT ... count()
\* counts the matching rows, DELETE ... WHERE drops every matching row.
InsertRow(rows, x) == rows (+) SetToBag({x})
CountRows(rows, x) == CopiesIn(x, rows)
DeleteRows(rows, x) == [y \in DOMAIN rows \ {x} |-> rows[y]]
\* .first() / .get() of an equality query: the row with the lowest key, or None
FirstIndex(seq, x) ==
    IF InList(x, seq)
    THEN CHOOSE j \in 1..Len(seq) : seq[j] = x /\ \A k \in 1..(j - 1) : seq[k] # x
    ELSE None

(***************************************************************************)
(* Finders.  A store holds roles and groups as the sequence of their names *)
(* (the key is the position), with their descriptions in a second sequence,*)
(* and users as a sequence of records; `deleted` are the keys of the users *)
(* whose row the adapter has deleted (a key is not given out again).  The  *)
(* SQLAlchemy and MongoEngine finders end in .first(), which gives None    *)
(* when no row matches; the Peewee finders end in .get(), which raises     *)
(* DoesNotExist, and turn that into None.                                  *)
(***************************************************************************)
UserEmails(st) ==
    [i \in 1..Len(st.users) |-> IF i \in st.deleted THEN NoText ELSE st.users[i].email]

find_role(st, name) == FirstIndex(st.roles, name)

find_group(st, name) == FirstIndex(st.groups, name)

find_user(st, email) == FirstIndex(UserEmails(st), email)

\* Model.filter(...).get()
QueryGet(seq, x) ==
    IF InList(x, seq) THEN RetEntity(FirstIndex(seq, x)) ELSE Ret("DoesNotExist")

Pw_find_role(st, name) ==
    LET r == QueryGet(st.roles, name)
    IN  IF r.tag = "DoesNotExist" THEN None ELSE r.id

Pw_find_group(st, name) ==
    LET r == QueryGet(st.groups, name)
    IN  IF r.tag = "DoesNotExist" THEN None ELSE r.id

Pw_find_user(st, email) ==
    LET r == QueryGet(UserEmails(st), email)
    IN  IF r.tag = "DoesNotExist" THEN None ELSE r.id

\* self.find_user, self.find_role, self.find_group of datastore b
FindUser(b, st, email) == IF b = "lnk" THEN Pw_find_user(st, email) ELSE find_user(st, email)
FindRole(b, st, name) == IF b = "lnk" THEN Pw_find_role(st, name) ELSE find_role(st, name)
FindGroup(b, st, name) == IF b = "lnk" THEN Pw_find_group(st, name) ELSE find_group(st, name)

prepare_role_modify_args(b, st, user, role) ==
    [user |-> IF user.isName THEN FindUser(b, st, user.text) ELSE user.id,
     role |-> IF role.isName THEN FindRole(b, st, role.name) ELSE role.id]

prepare_group_modify_args(b, st, user, group) ==
    [user |-> IF user.isName THEN FindUser(b, st, user.text) ELSE user.id,
     group |-> IF group.isName THEN FindGroup(b, st, group.name) ELSE group.id]

\* roles[i] = self.find_role(rn), rn the entity's name or the string itself
ResolveRoles(b, st, roles) ==
    [i \in 1..Len(roles) |->
        FindRole(b, st, IF roles[i].isName THEN roles[i].name ELSE st.roles[roles[i].id])]

ResolveGroups(b, st, groups) ==
    [i \in 1..Len(groups) |->
        FindGroup(b, st, IF groups[i].isName THEN groups[i].name ELSE st.groups[groups[i].id])]

\* _prepare_create_user_args without the default of `active`
prepare_create_user_args_no_default(b, st, kw) ==
    [kw EXCEPT !.roles = ResolveRoles(b, st, @),
               !.groups = ResolveGroups(b, st, @)]

prepare_create_user_args(b, st, kw) ==
    [kw EXCEPT !.active = IF @ = "unset" THEN "True" ELSE @,
               !.roles = ResolveRoles(b, st, @),
               !.groups = ResolveGroups(b, st, @)]

(***************************************************************************)
(* The adapter.  put(user) hands the user, with its active flag, to the    *)
(* backend: `saved` is the flag as the backend last received it.           *)
(***************************************************************************)
put_user(st, u) == [st EXCEPT !.users[u].saved = st.users[u].active]

Result(st, rv, calls) == [st |-> st, rv |-> rv, calls |-> calls]

(***************************************************************************)
(* UserDatastore: membership on user.roles / user.groups.                  *)
(***************************************************************************)
\* add_role_to_user without its membership check
add_role_to_user_unchecked(st, user, role) ==
    LET a == prepare_role_modify_args("emb", st, user, role)
    IN  IF a.user = None THEN Result(st, Ret("AttributeError"), 0)
        ELSE Result(put_user([st EXCEPT !.users[a.user].roles = Append(@, a.role)], a.user),
                    Ret("True"), 1)

add_role_to_user(st, user, role) ==
    LET a == prepare_role_modify_args("emb", st, user, role)
    IN  IF a.user = None THEN Result(st, Ret("AttributeError"), 0)
        ELSE IF ~InList(a.role, st.users[a.user].roles)
        THEN Result(put_user([st EXCEPT !.users[a.user].roles = Append(@, a.role)], a.user),
                    Ret("True"), 1)
        ELSE Result(st, Ret("False"), 0)

add_user_to_group(st, user, group) ==
    LET a == prepare_group_modify_args("emb", st, user, group)
    IN  IF a.user = None THEN Result(st, Ret("AttributeError"), 0)
        ELSE IF ~InList(a.group, st.users[a.user].groups)
        THEN Result(put_user([st EXCEPT !.users[a.user].groups = Append(@, a.group)], a.user),
                    Ret("True"), 1)
        ELSE Result(st, Ret("False"), 0)

remove_role_from_user(st, user, role) ==
    LET a == prepare_role_modify_args("emb", st, user, role)
    IN  IF a.user = None THEN Result(st, Ret("AttributeError"), 0)
        ELSE IF InList(a.role, st.users[a.user].roles)
        THEN Result(put_user([st EXCEPT !.users[a.user].roles = RemoveFirst(@, a.role)], a.user),
                    Ret("True"), 1)
        ELSE Result(st, Ret("False"), 0)

remove_user_from_group(st, user, group) ==
    LET a == prepare_group_modify_args("emb", st, user, group)
    IN  IF a.user = None THEN Result(st, Ret("AttributeError"), 0)
        ELSE IF InList(a.group, st.users[a.user].groups)
        THEN Result(put_user([st EXCEPT !.users[a.user].groups = RemoveFirst(@, a.group)], a.user),
                    Ret("True"), 1)
        ELSE Result(st, Ret("False"), 0)

\* put(role) without the backend's unique index on Role.name
put_role_not_unique(st, role) ==
    Result([st EXCEPT !.roles = Append(@, role.name),
                      !.role_description = Append(@, role.description)],
           RetEntity(Len(st.roles) + 1), 1)

\* put(role) in a backend that enforces the uniqueness of Role.name: a second
\* role of the same name is refused
put_role(st, role) ==
    IF InList(role.name, st.roles) THEN Result(st, Ret("IntegrityError"), 1)
    ELSE Result([st EXCEPT !.roles = Append(@, role.name),
                           !.role_description = Append(@, role.description)],
                RetEntity(Len(st.roles) + 1), 1)

put_group(st, group) ==
    IF InList(group.name, st.groups) THEN Result(st, Ret("IntegrityError"), 1)
    ELSE Result([st EXCEPT !.groups = Append(@, group.name),
                           !.group_description = Append(@, group.description)],
                RetEntity(Len(st.groups) + 1), 1)

create_role(st, kwargs) == put_role(st, kwargs)

create_group(st, kwargs) == put_group(st, kwargs)

\* find_or_create_role that applies the new attributes to the role it finds
find_or_create_role_updating(b, st, name, kwargs) ==
    LET found == FindRole(b, st, name)
    IN  IF found # None
        THEN Result([st EXCEPT !.role_description[found] = kwargs.description],
                    RetEntity(found), 1)
        ELSE create_role(st, [kwargs EXCEPT !.name = name])

\* found or self.create_role(**kwargs): the right-hand side runs when the
\* finder gave None
or_create_role(st, found, name, kwargs) ==
    IF found # None THEN Result(st, RetEntity(found), 0)
    ELSE create_role(st, [kwargs EXCEPT !.name = name])

\* self.find_role(name) or self.create_role(**kwargs), in datastore b
find_or_create_role(b, st, name, kwargs) ==
    or_create_role(st, FindRole(b, st, name), name, kwargs)

find_or_create_group(b, st, name, kwargs) ==
    LET found == FindGroup(b, st, name)
    IN  IF found # None THEN Result(st, RetEntity(found), 0)
        ELSE create_group(st, [kwargs EXCEPT !.name = name])

NewUser(kw) ==
    [email |-> kw.email, username |-> kw.username,
     active |-> (kw.active = "True"), saved |-> (kw.active = "True"),
     roles |-> kw.roles, groups |-> kw.groups]

create_user(st, kw) ==
    LET args == prepare_create_user_args("emb", st, kw)
    IN  Result([st EXCEPT !.users = Append(@, NewUser(args))],
               RetEntity(Len(st.users) + 1), 1)

\* delete_user that also deletes the membership rows of the user
delete_user_cascading(st, u) ==
    Result([st EXCEPT !.deleted = @ \cup {u},
                      !.UserRole = [x \in {y \in DOMAIN @ : y[1] # u} |-> @[x]],
                      !.UserGroup = [x \in {y \in DOMAIN @ : y[1] # u} |-> @[x]]],
           Ret("None"), 1)

\* self.delete(user): session.delete(user), user.delete() or, in Peewee,
\* user.delete_instance(), which deletes the user's row and no other
delete_user(st, u) ==
    Result([st EXCEPT !.deleted = @ \cup {u}], Ret("None"), 1)

\* activate_user that sets the flag whatever it was
activate_user_unguarded(st, u) ==
    Result([st EXCEPT !.users[u].active = TRUE], Ret("True"), 0)

\* toggle_active that switches the flag on
toggle_active_set(st, u) ==
    Result([st EXCEPT !.users[u].active = TRUE], Ret("True"), 0)

toggle_active(st, u) ==
    Result([st EXCEPT !.users[u].active = ~@], Ret("True"), 0)

deactivate_user(st, u) ==
    IF st.users[u].active
    THEN Result([st EXCEPT !.users[u].active = FALSE], Ret("True"), 0)
    ELSE Result(st, Ret("False"), 0)

activate_user(st, u) ==
    IF ~st.users[u].active
    THEN Result([st EXCEPT !.users[u].active = TRUE], Ret("True"), 0)
    ELSE Result(st, Ret("False"), 0)

(***************************************************************************)
(* PeeweeUserDatastore: membership as UserRole / UserGroup rows.           *)
(***************************************************************************)
Pw_add_role_to_user(st, user, role) ==
    LET a == prepare_role_modify_args("lnk", st, user, role)
    IN  IF a.user = None \/ a.role = None THEN Result(st, Ret("AttributeError"), 0)
        ELSE IF CountRows(st.UserRole, <<a.user, a.role>>) # 0
        THEN Result(st, Ret("False"), 0)
        ELSE Result([st EXCEPT !.UserRole = InsertRow(@, <<a.user, a.role>>)], Ret("True"), 1)

\* remove_role_from_user whose queries select on the role alone
Pw_remove_role_from_user_any_user(st, user, role) ==
    LET a == prepare_role_modify_args("lnk", st, user, role)
        rows == {x \in DOMAIN st.UserRole : x[2] = a.role}
    IN  IF rows # {}
        THEN Result([st EXCEPT !.UserRole = [y \in DOMAIN @ \ rows |-> @[y]]], Ret("True"), 0)
        ELSE Result(st, Ret("False"), 0)

Pw_remove_role_from_user(st, user, role) ==
    LET a == prepare_role_modify_args("lnk", st, user, role)
    IN  IF CountRows(st.UserRole, <<a.user, a.role>>) # 0
        THEN Result([st EXCEPT !.UserRole = DeleteRows(@, <<a.user, a.role>>)], Ret("True"), 0)
        ELSE Result(st, Ret("False"), 0)

Pw_add_user_to_group(st, user, group) ==
    LET a == prepare_group_modify_args("lnk", st, user, group)
    IN  IF a.user = None \/ a.group = None THEN Result(st, Ret("AttributeError"), 0)
        ELSE IF CountRows(st.UserGroup, <<a.user, a.group>>) # 0
        THEN Result(st, Ret("False"), 0)
        ELSE Result([st EXCEPT !.UserGroup = InsertRow(@, <<a.user, a.group>>)], Ret("True"), 1)

Pw_remove_user_from_group(st, user, group) ==
    LET a == prepare_group_modify_args("lnk", st, user, group)
    IN  IF CountRows(st.UserGroup, <<a.user, a.group>>) # 0
        THEN Result([st EXCEPT !.UserGroup = DeleteRows(@, <<a.user, a.group>>)], Ret("True"), 0)
        ELSE Result(st, Ret("False"), 0)

\* for role in roles: self.add_role_to_user(user, role); an error ends the loop
RECURSIVE Pw_add_roles(_, _, _)
Pw_add_roles(st, u, roles) ==
    IF roles = <<>> THEN Result(st, Ret("None"), 0)
    ELSE LET r == Pw_add_role_to_user(st, EntityRef(u), Head(roles))
         IN  IF IsError(r.rv) THEN r
             ELSE LET rest == Pw_add_roles(r.st, u, Tail(roles))
                  IN  [rest EXCEPT !.calls = @ + r.calls]

RECURSIVE Pw_add_groups(_, _, _)
Pw_add_groups(st, u, groups) ==
    IF groups = <<>> THEN Result(st, Ret("None"), 0)
    ELSE LET r == Pw_add_user_to_group(st, EntityRef(u), Head(groups))
         IN  IF IsError(r.rv) THEN r
             ELSE LET rest == Pw_add_groups(r.st, u, Tail(groups))
                  IN  [rest EXCEPT !.calls = @ + r.calls]

\* create_user that leaves out the loop over the roles
Pw_create_user_without_roles(st, kw) ==
    LET args == prepare_create_user_args("lnk", st, [kw EXCEPT !.roles = <<>>, !.groups = <<>>])
        u == Len(st.users) + 1
        s1 == [st EXCEPT !.users = Append(@, NewUser(args))]
        g == Pw_add_groups(s1, u, kw.groups)
    IN  IF IsError(g.rv) THEN Result(g.st, g.rv, 1 + g.calls)
        ELSE Result(put_user(g.st, u), RetEntity(u), 2 + g.calls)

Pw_create_user(st, kw) ==
    LET args == prepare_create_user_args("lnk", st, [kw EXCEPT !.roles = <<>>, !.groups = <<>>])
        u == Len(st.users) + 1
        s1 == [st EXCEPT !.users = Append(@, NewUser(args))]
        r == Pw_add_roles(s1, u, kw.roles)
        g == Pw_add_groups(r.st, u, kw.groups)
    IN  IF IsError(r.rv) THEN Result(r.st, r.rv, 1 + r.calls)
        ELSE IF IsError(g.rv) THEN Result(g.st, g.rv, 1 + r.calls + g.calls)
        ELSE Result(put_user(g.st, u), RetEntity(u), 2 + r.calls + g.calls)

(***************************************************************************)
(* State: the two stores, and the last call with what it returned, how     *)
(* many adapter calls (put, delete) it made, what it found as it began     *)
(* (did the user hold the role or group), whether it changed the store.   *)
(***************************************************************************)
EmptyEmb == [roles |-> <<>>, groups |-> <<>>, users |-> <<>>, deleted |-> {},
             role_description |-> <<>>, group_description |-> <<>>]
EmptyLnk == [roles |-> <<>>, groups |-> <<>>, users |-> <<>>, deleted |-> {},
             role_description |-> <<>>, group_description |-> <<>>,
             UserRole |-> EmptyBag, UserGroup |-> EmptyBag]

Both(x) == [emb |-> x, lnk |-> x]

\* the keyword arguments of the last call that the properties read
NoKw == [active |-> "unset", roles |-> <<>>, groups |-> <<>>, description |-> ""]

NoPrev == [op |-> "none", kw |-> NoKw, rv |-> Both(Ret("None")), calls |-> Both(0),
           before |-> Both(FALSE)]

NoCall == [op |-> "none", user |-> NoRef, target |-> NoRef, kw |-> NoKw,
           rv |-> Both(Ret("None")), calls |-> Both(0),
           before |-> Both(FALSE), changed |-> Both(FALSE), prev |-> NoPrev]

NoLookup == [op |-> "none", text |-> NoText, name |-> "", rv |-> Ret("None")]

Callers == {1, 2}
Idle == [at |-> "idle", name |-> "", found |-> Both(None), rv |-> Both(Ret("None"))]

Init ==
    /\ emb = EmptyEmb /\ lnk = EmptyLnk /\ last = NoCall /\ got = NoLookup
    /\ callers = [p \in Callers |-> Idle]

\* what is remembered of the call before this one, when it was made with the
\* same arguments and was one of `ops`
Remember(ops, user, target) ==
    IF last.op \in ops /\ last.user = user /\ last.target = target
    THEN [op |-> last.op, kw |-> last.kw, rv |-> last.rv, calls |-> last.calls,
          before |-> last.before]
    ELSE NoPrev

\* the same, and the call before is also remembered when it was the
\* create_user that made `user`
RememberCreated(ops, user, target) ==
    IF /\ last.op = "create_user"
       /\ \/ user.isName /\ user.text = last.user.text
          \/ ~user.isName /\ user.id = find_user(emb, last.user.text)
    THEN [op |-> last.op, kw |-> last.kw, rv |-> last.rv, calls |-> last.calls,
          before |-> last.before]
    ELSE Remember(ops, user, target)

\* one call, issued to both backends: e and l are its results (store, return
\* value, adapter calls), `before` what the call found
CallWith(op, user, target, kw, e, l, before, prev) ==
    /\ emb' = e.st
    /\ lnk' = l.st
    /\ last' = [op |-> op, user |-> user, target |-> target, kw |-> kw,
                rv |-> [emb |-> e.rv, lnk |-> l.rv],
                calls |-> [emb |-> e.calls, lnk |-> l.calls],
                before |-> before,
                changed |-> [emb |-> e.st # emb, lnk |-> l.st # lnk],
                prev |-> prev]
    /\ got' = NoLookup
    /\ UNCHANGED callers

Call(op, user, target, e, l, before, prev) ==
    CallWith(op, user, target, NoKw, e, l, before, prev)

\* does the resolved user hold the resolved role / group
EmbHoldsRole(st, user, role) ==
    LET a == prepare_role_modify_args("emb", st, user, role)
    IN  a.user # None /\ InList(a.role, st.users[a.user].roles)
LnkHoldsRole(st, user, role) ==
    LET a == prepare_role_modify_args("lnk", st, user, role)
    IN  a.user # None /\ CountRows(st.UserRole, <<a.user, a.role>>) # 0
EmbHoldsGroup(st, user, group) ==
    LET a == prepare_group_modify_args("emb", st, user, group)
    IN  a.user # None /\ InList(a.group, st.users[a.user].groups)
LnkHoldsGroup(st, user, group) ==
    LET a == prepare_group_modify_args("lnk", st, user, group)
    IN  a.user # None /\ CountRows(st.UserGroup, <<a.user, a.group>>) # 0

UserRefs ==
    {EntityRef(k) : k \in 1..Len(emb.users)}
        \cup {UserNameRef(e) : e \in TwoEmails \cup {NoSuchEmail}}
RoleRefs ==
    {EntityRef(k) : k \in 1..Len(emb.roles)}
        \cup {RoleNameRef(n) : n \in RoleNames \cup {NoSuchName}}
GroupRefs ==
    {EntityRef(k) : k \in 1..Len(emb.groups)}
        \cup {RoleNameRef(n) : n \in GroupNames \cup {NoSuchName}}

\* Role.name, Group.name and User.email are unique in the backend
CreateRole(name) ==
    /\ find_role(emb, name) = None
    /\ Call("create_role", NoRef, RoleNameRef(name),
            create_role(emb, [name |-> name, description |-> ""]),
            create_role(lnk, [name |-> name, description |-> ""]), Both(FALSE), NoPrev)

CreateGroup(name) ==
    /\ find_group(emb, name) = None
    /\ Call("create_group", NoRef, RoleNameRef(name),
            create_group(emb, [name |-> name, description |-> ""]),
            create_group(lnk, [name |-> name, description |-> ""]), Both(FALSE), NoPrev)

CreateUser(email, username, active, roles, groups) ==
    LET kw == [email |-> email, username |-> username, active |-> active,
               roles |-> roles, groups |-> groups]
    IN  /\ find_user(emb, email) = None
        /\ CallWith("create_user", UserNameRef(email), NoRef,
                    [NoKw EXCEPT !.active = active, !.roles = roles, !.groups = groups],
                    create_user(emb, kw), Pw_create_user(lnk, kw), Both(FALSE), NoPrev)

AddRoleToUser(user, role) ==
    Call("add_role_to_user", user, role,
         add_role_to_user(emb, user, role), Pw_add_role_to_user(lnk, user, role),
         [emb |-> EmbHoldsRole(emb, user, role), lnk |-> LnkHoldsRole(lnk, user, role)],
         Remember({"add_role_to_user"}, user, role))

RemoveRoleFromUser(user, role) ==
    Call("remove_role_from_user", user, role,
         remove_role_from_user(emb, user, role), Pw_remove_role_from_user(lnk, user, role),
         [emb |-> EmbHoldsRole(emb, user, role), lnk |-> LnkHoldsRole(lnk, user, role)],
         RememberCreated({"remove_role_from_user"}, user, role))

AddUserToGroup(user, group) ==
    Call("add_user_to_group", user, group,
         add_user_to_group(emb, user, group), Pw_add_user_to_group(lnk, user, group),
         [emb |-> EmbHoldsGroup(emb, user, group), lnk |-> LnkHoldsGroup(lnk, user, group)],
         Remember({"add_user_to_group"}, user, group))

RemoveUserFromGroup(user, group) ==
    Call("remove_user_from_group", user, group,
         remove_user_from_group(emb, user, group), Pw_remove_user_from_group(lnk, user, group),
         [emb |-> EmbHoldsGroup(emb, user, group), lnk |-> LnkHoldsGroup(lnk, user, group)],
         Remember({"remove_user_from_group"}, user, group))

(***************************************************************************)
(* Spec: every membership operation, on roles and on groups, one user.     *)
(***************************************************************************)
Next ==
    \/ \E n \in RoleNames : CreateRole(n)
    \/ \E n \in GroupNames : CreateGroup(n)
    \/ \E e \in {x \in Emails : find_user(emb, x) = None} :
          \E rs \in SeqsUpTo(RoleRefs, MaxListLen), gs \in SeqsUpTo(GroupRefs, MaxListLen) :
            CreateUser(e, NoText, "unset", rs, gs)
    \/ \E u \in UserRefs, r \in RoleRefs : AddRoleToUser(u, r)
    \/ \E u \in UserRefs, r \in RoleRefs : RemoveRoleFromUser(u, r)
    \/ \E u \in UserRefs, g \in GroupRefs : AddUserToGroup(u, g)
    \/ \E u \in UserRefs, g \in GroupRefs : RemoveUserFromGroup(u, g)

Spec == Init /\ [][Next]_vars

(***************************************************************************)
(* SpecRoles: the role operations with two users.                          *)
(***************************************************************************)
NextRoles ==
    \/ \E n \in RoleNames : CreateRole(n)
    \/ \E e \in {x \in TwoEmails : find_user(emb, x) = None} :
          \E rs \in SeqsUpTo(RoleRefs, MaxListLen) : CreateUser(e, NoText, "unset", rs, <<>>)
    \/ \E u \in UserRefs, r \in RoleRefs : AddRoleToUser(u, r)
    \/ \E u \in UserRefs, r \in RoleRefs : RemoveRoleFromUser(u, r)

SpecRoles == Init /\ [][NextRoles]_vars

(***************************************************************************)
(* SpecActive: the active flag of two users.  activate_user,               *)
(* deactivate_user and toggle_active are UserDatastore's in every backend. *)
(***************************************************************************)
ActiveOps == {"activate_user", "deactivate_user", "toggle_active"}

ActiveBefore(u) == [emb |-> emb.users[u].active, lnk |-> lnk.users[u].active]

ActivateUser(u) ==
    Call("activate_user", EntityRef(u), NoRef,
         activate_user(emb, u), activate_user(lnk, u),
         ActiveBefore(u), Remember(ActiveOps, EntityRef(u), NoRef))

DeactivateUser(u) ==
    Call("deactivate_user", EntityRef(u), NoRef,
         deactivate_user(emb, u), deactivate_user(lnk, u),
         ActiveBefore(u), Remember(ActiveOps, EntityRef(u), NoRef))

ToggleActive(u) ==
    Call("toggle_active", EntityRef(u), NoRef,
         toggle_active(emb, u), toggle_active(lnk, u),
         ActiveBefore(u), Remember(ActiveOps, EntityRef(u), NoRef))

NextActive ==
    \/ \E e \in {x \in TwoEmails : find_user(emb, x) = None}, a \in ActiveArgs :
          CreateUser(e, NoText, a, <<>>, <<>>)
    \/ \E u \in 1..Len(emb.users) : ActivateUser(u)
    \/ \E u \in 1..Len(emb.users) : DeactivateUser(u)
    \/ \E u \in 1..Len(emb.users) : ToggleActive(u)

SpecActive == Init /\ [][NextActive]_vars

(***************************************************************************)
(* SpecDelete: users are created with and given roles, and deleted.        *)
(***************************************************************************)
MaxUsers == 2

LiveUsers == (1..Len(emb.users)) \ emb.deleted

DeleteUser(u) ==
    Call("delete_user", EntityRef(u), NoRef,
         delete_user(emb, u), delete_user(lnk, u), Both(FALSE), NoPrev)

NextDelete ==
    \/ \E n \in RoleNames : CreateRole(n)
    \/ \E n \in GroupNames : CreateGroup(n)
    \/ \E e \in {x \in TwoEmails : find_user(emb, x) = None /\ Len(emb.users) < MaxUsers} :
          \E rs \in SeqsUpTo({EntityRef(k) : k \in 1..Len(emb.roles)}, 1),
             gs \in SeqsUpTo({EntityRef(k) : k \in 1..Len(emb.groups)}, 1) :
            CreateUser(e, NoText, "unset", rs, gs)
    \/ \E u \in LiveUsers, r \in 1..Len(emb.roles) :
          AddRoleToUser(EntityRef(u), EntityRef(r))
    \/ \E u \in LiveUsers, r \in 1..Len(emb.roles) :
          RemoveRoleFromUser(EntityRef(u), EntityRef(r))
    \/ \E u \in LiveUsers : DeleteUser(u)

SpecDelete == Init /\ [][NextDelete]_vars

(***************************************************************************)
(* SpecFind: find_or_create_role and find_or_create_group, one call after  *)
(* the other.                                                              *)
(***************************************************************************)
FindRoleNames == {"admin", "editor"}
FindGroupNames == {"staff", "guests"}
Descriptions == {"x", "y"}

FindOrCreateRole(name, description) ==
    CallWith("find_or_create_role", NoRef, RoleNameRef(name),
             [NoKw EXCEPT !.description = description],
             find_or_create_role("emb", emb, name, [name |-> "", description |-> description]),
             find_or_create_role("lnk", lnk, name, [name |-> "", description |-> description]),
             [emb |-> find_role(emb, name) # None, lnk |-> Pw_find_role(lnk, name) # None],
             Remember({"find_or_create_role"}, NoRef, RoleNameRef(name)))

FindOrCreateGroup(name, description) ==
    CallWith("find_or_create_group", NoRef, RoleNameRef(name),
             [NoKw EXCEPT !.description = description],
             find_or_create_group("emb", emb, name, [name |-> "", description |-> description]),
             find_or_create_group("lnk", lnk, name, [name |-> "", description |-> description]),
             [emb |-> find_group(emb, name) # None, lnk |-> Pw_find_group(lnk, name) # None],
             Remember({"find_or_create_group"}, NoRef, RoleNameRef(name)))

NextFind ==
    \/ \E n \in RoleNames : CreateRole(n)
    \/ \E n \in GroupNames : CreateGroup(n)
    \/ \E n \in FindRoleNames, d \in Descriptions : FindOrCreateRole(n, d)
    \/ \E n \in FindGroupNames, d \in Descriptions : FindOrCreateGroup(n, d)

SpecFind == Init /\ [][NextFind]_vars

(***************************************************************************)
(* SpecRace: two callers in find_or_create_role at the same time.  The     *)
(* method is two steps, the query of find_role and, when that gave None,   *)
(* the put of create_role; the steps of the callers interleave.            *)
(***************************************************************************)
FocFind(p, name) ==
    /\ callers[p].at = "idle"
    /\ callers' = [callers EXCEPT ![p] =
                      [at |-> "found", name |-> name,
                       found |-> [emb |-> FindRole("emb", emb, name),
                                  lnk |-> FindRole("lnk", lnk, name)],
                       rv |-> Both(Ret("None"))]]
    /\ UNCHANGED <<emb, lnk, last, got>>

FocCreate(p) ==
    /\ callers[p].at = "found"
    /\ LET c == callers[p]
           kwargs == [name |-> "", description |-> ""]
           e == or_create_role(emb, c.found.emb, c.name, kwargs)
           l == or_create_role(lnk, c.found.lnk, c.name, kwargs)
       IN  /\ emb' = e.st
           /\ lnk' = l.st
           /\ callers' = [callers EXCEPT ![p].at = "done",
                                          ![p].rv = [emb |-> e.rv, lnk |-> l.rv]]
    /\ UNCHANGED <<last, got>>

FocReturn(p) ==
    /\ callers[p].at = "done"
    /\ callers' = [callers EXCEPT ![p] = Idle]
    /\ UNCHANGED <<emb, lnk, last, got>>

NextRace ==
    \/ \E n \in GroupNames : CreateGroup(n)
    \/ \E p \in Callers, n \in FindRoleNames : FocFind(p, n)
    \/ \E p \in Callers : FocCreate(p)
    \/ \E p \in Callers : FocReturn(p)

SpecRace == Init /\ [][NextRace]_vars

(***************************************************************************)
(* get_user.  An identifier is text: a tuple of characters.                *)
(***************************************************************************)
MaxIdLen == 2

Chars == {"2", "a", "A", "%"}
Digits == <<"0", "1", "2", "3", "4", "5", "6", "7", "8", "9">>
Upper == <<"A", "B", "C", "D", "E", "F">>
LowerOf == <<"a", "b", "c", "d", "e", "f">>
Identifiers == UNION {[1..k -> Chars] : k \in 1..MaxIdLen}
\* the addresses and the user names of SpecGet's users
StoredTexts == {<<"2">>, <<"a">>}
StoredNames == {<<"2">>}

IsDigit(c) == \E i \in 1..Len(Digits) : Digits[i] = c
DigitValue(c) == (CHOOSE i \in 1..Len(Digits) : Digits[i] = c) - 1
Lower(c) ==
    IF \E i \in 1..Len(Upper) : Upper[i] = c
    THEN LowerOf[CHOOSE i \in 1..Len(Upper) : Upper[i] = c]
    ELSE c
IsHex(c) == IsDigit(c) \/ \E i \in 1..Len(LowerOf) : LowerOf[i] = Lower(c)

\* int(value) raises no ValueError
is_numeric(value) == value # <<>> /\ \A i \in 1..Len(value) : IsDigit(value[i])

RECURSIVE IntValue(_)
IntValue(value) ==
    IF value = <<>> THEN 0
    ELSE 10 * IntValue(SubSeq(value, 1, Len(value) - 1)) + DigitValue(value[Len(value)])

\* a bson ObjectId given as text: 24 hexadecimal digits
IsObjectId(value) == Len(value) = 24 /\ \A i \in 1..Len(value) : IsHex(value[i])

\* column ILIKE pattern: % stands for any text, _ for any one character
RECURSIVE ILike(_, _)
ILike(value, pattern) ==
    IF pattern = <<>> THEN value = <<>>
    ELSE IF Head(pattern) = "%"
    THEN ILike(value, Tail(pattern)) \/ (value # <<>> /\ ILike(Tail(value), pattern))
    ELSE /\ value # <<>>
         /\ Head(pattern) = "_" \/ Lower(Head(value)) = Lower(Head(pattern))
         /\ ILike(Tail(value), Tail(pattern))

\* attr__iexact: equal but for case
IExact(value, text) ==
    Len(value) = Len(text) /\ \A i \in 1..Len(text) : Lower(value[i]) = Lower(text[i])

\* get_identity_attributes(): the configured attributes, in order
IdentityAttributes == <<"email", "username">>

\* the user with the lowest key among `hits`, or None
FirstUser(hits) == IF hits = {} THEN None ELSE CHOOSE u \in hits : \A v \in hits : u <= v

\* query.get(pk)
UserByKey(st, k) == IF k \in 1..Len(st.users) /\ k \notin st.deleted THEN k ELSE None

ILikeHits(st, attr, identifier) ==
    {u \in (1..Len(st.users)) \ st.deleted :
        st.users[u][attr] # NoText /\ ILike(st.users[u][attr], identifier)}

IExactHits(st, attr, identifier) ==
    {u \in (1..Len(st.users)) \ st.deleted :
        st.users[u][attr] # NoText /\ IExact(st.users[u][attr], identifier)}

\* for attr in get_identity_attributes(): the first attribute that finds a user
RECURSIVE ILikeLoop(_, _, _)
ILikeLoop(st, attrs, identifier) ==
    IF attrs = <<>> THEN None
    ELSE LET rv == FirstUser(ILikeHits(st, Head(attrs), identifier))
         IN  IF rv # None THEN rv ELSE ILikeLoop(st, Tail(attrs), identifier)

RECURSIVE IExactLoop(_, _, _)
IExactLoop(st, attrs, identifier) ==
    IF attrs = <<>> THEN None
    ELSE LET rv == FirstUser(IExactHits(st, Head(attrs), identifier))
         IN  IF rv # None THEN rv ELSE IExactLoop(st, Tail(attrs), identifier)

\* get_user that tries the identity attributes before the primary key
Sqla_get_user_attrs_first(st, identifier) ==
    IF ILikeLoop(st, IdentityAttributes, identifier) # None
    THEN RetEntity(ILikeLoop(st, IdentityAttributes, identifier))
    ELSE IF is_numeric(identifier)
    THEN RetEntity(UserByKey(st, IntValue(identifier)))
    ELSE Ret("None")

Sqla_get_user(st, identifier) ==
    IF is_numeric(identifier)
    THEN RetEntity(UserByKey(st, IntValue(identifier)))
    ELSE RetEntity(ILikeLoop(st, IdentityAttributes, identifier))

\* pk is the user document's key field: "int" (an IntField primary key) or
\* "objectid" (the default); objects(id=...) raises ValidationError for text
\* the field does not accept.  No ObjectId is among this model's users.
Mongo_get_user(pk, st, identifier) ==
    IF pk = "int" /\ is_numeric(identifier)
    THEN RetEntity(UserByKey(st, IntValue(identifier)))
    ELSE IF pk = "objectid" /\ IsObjectId(identifier)
    THEN Ret("None")
    ELSE RetEntity(IExactLoop(st, IdentityAttributes, identifier))

\* user_model.get(id == identifier): ValueError for text that is no number,
\* DoesNotExist when no row has the key
Pw_get_user(st, identifier) ==
    IF is_numeric(identifier)
    THEN IF UserByKey(st, IntValue(identifier)) # None
         THEN RetEntity(UserByKey(st, IntValue(identifier)))
         ELSE Ret("DoesNotExist")
    ELSE RetEntity(ILikeLoop(st, IdentityAttributes, identifier))

LookupBackends == {"sqlalchemy", "mongoengine", "mongoengine_objectid", "peewee"}

StoreOf(backend) == IF backend = "peewee" THEN lnk ELSE emb

get_user(backend, identifier) ==
    IF backend = "sqlalchemy" THEN Sqla_get_user(emb, identifier)
    ELSE IF backend = "mongoengine" THEN Mongo_get_user("int", emb, identifier)
    ELSE IF backend = "mongoengine_objectid" THEN Mongo_get_user("objectid", emb, identifier)
    ELSE Pw_get_user(lnk, identifier)

\* one lookup, made in every backend: rv[b] is what backend b returns
Lookup(op, text, name, rv) ==
    /\ got' = [op |-> op, text |-> text, name |-> name, rv |-> rv]
    /\ UNCHANGED <<emb, lnk, last, callers>>

GetUser(identifier) ==
    Lookup("get_user", identifier, "", [b \in LookupBackends |-> get_user(b, identifier)])

FindUserBy(email) ==
    Lookup("find_user", email, "",
           [b \in LookupBackends |->
               RetEntity(IF b = "peewee" THEN Pw_find_user(lnk, email)
                         ELSE find_user(emb, email))])

FindRoleBy(name) ==
    Lookup("find_role", NoText, name,
           [b \in LookupBackends |->
               RetEntity(IF b = "peewee" THEN Pw_find_role(lnk, name)
                         ELSE find_role(emb, name))])

FindGroupBy(name) ==
    Lookup("find_group", NoText, name,
           [b \in LookupBackends |->
               RetEntity(IF b = "peewee" THEN Pw_find_group(lnk, name)
                         ELSE find_group(emb, name))])

(***************************************************************************)
(* SpecGet: users with an address and perhaps a user name, and lookups.    *)
(***************************************************************************)
NextGet ==
    \/ \E n \in RoleNames : CreateRole(n)
    \/ \E n \in GroupNames : CreateGroup(n)
    \/ \E e \in {x \in StoredTexts : find_user(emb, x) = None},
          n \in StoredNames \cup {NoText} : CreateUser(e, n, "unset", <<>>, <<>>)
    \/ \E i \in Identifiers : GetUser(i)
    \/ \E e \in StoredTexts : FindUserBy(e)
    \/ \E n \in RoleNames \cup {NoSuchName} : FindRoleBy(n)
    \/ \E n \in GroupNames \cup {NoSuchName} : FindGroupBy(n)

SpecGet == Init /\ [][NextGet]_vars

(***************************************************************************)
(* Properties of the membership operations.                                *)
(***************************************************************************)
True == Ret("True")
False == Ret("False")
Backends == {"emb", "lnk"}
MutationOps == {"add_role_to_user", "remove_role_from_user",
                "add_user_to_group", "remove_user_from_group"}
RoleOps == {"add_role_to_user", "remove_role_from_user"}

\* the (user, role) and (user, group) memberships a store holds
EmbRolePairs(st) ==
    {p \in (1..Len(st.users)) \X (1..Len(st.roles)) : InList(p[2], st.users[p[1]].roles)}
EmbGroupPairs(st) ==
    {p \in (1..Len(st.users)) \X (1..Len(st.groups)) : InList(p[2], st.users[p[1]].groups)}
LnkRolePairs(st) == BagToSet(st.UserRole)
LnkGroupPairs(st) == BagToSet(st.UserGroup)

\* how often the pair occurs in the membership relation of backend b
RoleCount(b, u, r) ==
    IF b = "emb" THEN Count(r, emb.users[u].roles) ELSE CountRows(lnk.UserRole, <<u, r>>)
GroupCount(b, u, g) ==
    IF b = "emb" THEN Count(g, emb.users[u].groups) ELSE CountRows(lnk.UserGroup, <<u, g>>)

\* the entities the last call's arguments stand for (the finders see the same
\* users, roles and groups before and after a membership operation)
LastUser == IF last.user.isName THEN find_user(emb, last.user.text) ELSE last.user.id
LastTarget ==
    IF ~last.target.isName THEN last.target.id
    ELSE IF last.op \in RoleOps THEN find_role(emb, last.target.name)
    ELSE find_group(emb, last.target.name)
\* a name string among the last call's arguments resolved to nothing
UnresolvedName ==
    \/ last.user.isName /\ LastUser = None
    \/ last.target.isName /\ LastTarget = None

\* C1: the same call gives the same outcome in the embedded and in the linked
\* backend (the same return value, or an error in both), and afterwards both
\* hold the same (user, role) and (user, group) memberships.
C1_BackendsAgree ==
    /\ \/ IsError(last.rv.emb) /\ IsError(last.rv.lnk)
       \/ last.rv.emb = last.rv.lnk
    /\ EmbRolePairs(emb) = LnkRolePairs(lnk)
    /\ EmbGroupPairs(emb) = LnkGroupPairs(lnk)

\* C2: for an existing user and an existing role the user does not hold yet,
\* add_role_to_user twice in a row returns True and then False, and the
\* relation then holds the pair exactly once; in both backends.
C2_AddRoleTwice ==
    (/\ last.op = "add_role_to_user"
     /\ last.prev.op = "add_role_to_user"
     /\ LastUser # None /\ LastTarget # None)
        => \A b \in Backends :
              ~last.prev.before[b]
                  => /\ last.prev.rv[b] = True
                     /\ last.rv[b] = False
                     /\ RoleCount(b, LastUser, LastTarget) = 1

C2_Witness ==
    /\ last.op = "add_role_to_user"
    /\ last.prev.op = "add_role_to_user"
    /\ LastUser # None /\ LastTarget # None
    /\ ~last.prev.before.emb /\ ~last.prev.before.lnk
    /\ Len(emb.users) = 2

\* C3: each (user, role) pair and each (user, group) pair appears at most once
\* in the membership relation.
C3_PairsAtMostOnce ==
    \A b \in Backends : \A u \in 1..Len(emb.users) :
        /\ \A r \in 1..Len(emb.roles) : RoleCount(b, u, r) <= 1
        /\ \A g \in 1..Len(emb.groups) : GroupCount(b, u, g) <= 1

\* C4: a membership mutation given a name string that resolves to nothing
\* raises nothing, returns False, changes nothing and leaves no None entry in
\* any role or group collection.
C4_UnresolvedNameIsNoChange ==
    (last.op \in MutationOps /\ UnresolvedName)
        => /\ \A b \in Backends : last.rv[b] = False /\ ~last.changed[b]
           /\ \A u \in 1..Len(emb.users) :
                 ~InList(None, emb.users[u].roles) /\ ~InList(None, emb.users[u].groups)

\* C5: remove_role_from_user for a user that does not hold the existing role
\* returns False, changes nothing and makes no adapter call.
C5_RemoveAbsentRole ==
    (/\ last.op = "remove_role_from_user"
     /\ LastUser # None /\ LastTarget # None)
        => \A b \in Backends :
              ~last.before[b]
                  => last.rv[b] = False /\ ~last.changed[b] /\ last.calls[b] = 0

C5_Witness ==
    /\ last.op = "remove_role_from_user"
    /\ LastUser # None /\ LastTarget # None
    /\ ~last.before.emb /\ ~last.before.lnk
    /\ Len(emb.users) = 2
    /\ EmbRolePairs(emb) # {} /\ LnkRolePairs(lnk) # {}

(***************************************************************************)
(* Properties of the active flag.                                          *)
(***************************************************************************)
ActiveNow(b, u) == IF b = "emb" THEN emb.users[u].active ELSE lnk.users[u].active
SavedNow(b, u) == IF b = "emb" THEN emb.users[u].saved ELSE lnk.users[u].saved

\* the flag was in the state opposite to the one the last call asks for
WasOpposite(b) ==
    IF last.op = "activate_user" THEN ~last.before[b] ELSE last.before[b]

\* C6: activate_user and deactivate_user change the flag and put the user
\* exactly when the flag was in the opposite state, return True exactly then,
\* and after a True the adapter has been handed the changed flag.
C6_GuardedAndPersisted ==
    last.op \in {"activate_user", "deactivate_user"}
        => \A b \in Backends :
              /\ (last.rv[b] = True) <=> WasOpposite(b)
              /\ last.changed[b] <=> WasOpposite(b)
              /\ (last.calls[b] = 1) <=> WasOpposite(b)
              /\ last.rv[b] = True => SavedNow(b, last.user.id) = ActiveNow(b, last.user.id)

\* C7: activate_user on an active user returns False, leaves the flag set and
\* calls no put; a deactivate_user that follows on the same user returns True
\* and leaves the flag cleared.  deactivate_user on an inactive user returns
\* False and changes nothing.
C7_ActivateThenDeactivate ==
    \A b \in Backends :
        /\ (last.op = "activate_user" /\ last.before[b])
              => /\ last.rv[b] = False
                 /\ ActiveNow(b, last.user.id)
                 /\ ~last.changed[b]
                 /\ last.calls[b] = 0
        /\ (last.op = "deactivate_user" /\ last.prev.op = "activate_user"
                /\ last.prev.before[b])
              => /\ last.prev.rv[b] = False
                 /\ last.prev.calls[b] = 0
                 /\ last.rv[b] = True
                 /\ ~ActiveNow(b, last.user.id)
        /\ (last.op = "deactivate_user" /\ ~last.before[b])
              => /\ last.rv[b] = False
                 /\ ~ActiveNow(b, last.user.id)
                 /\ ~last.changed[b]
                 /\ last.calls[b] = 0

C7_Witness ==
    /\ last.op = "deactivate_user"
    /\ last.prev.op = "activate_user"
    /\ last.prev.before.emb /\ last.prev.before.lnk
    /\ Len(emb.users) = 2

\* C8: toggle_active returns True on every call and negates the flag; two
\* calls in a row restore the flag the first one found.
C8_ToggleTwice ==
    last.op = "toggle_active"
        => \A b \in Backends :
              /\ last.rv[b] = True
              /\ ActiveNow(b, last.user.id) = ~last.before[b]
              /\ last.prev.op = "toggle_active"
                    => /\ last.prev.rv[b] = True
                       /\ ActiveNow(b, last.user.id) = last.prev.before[b]

C8_Witness ==
    /\ last.op = "toggle_active"
    /\ last.prev.op = "toggle_active"
    /\ Len(emb.users) = 2
    /\ \E u \in 1..2 : ~emb.users[u].active
    /\ \E u \in 1..2 : emb.users[u].active

(***************************************************************************)
(* Properties of the lookups.                                              *)
(***************************************************************************)
\* some user's key is the number the identifier reads as
KeyMatches(st, identifier) ==
    is_numeric(identifier) /\ UserByKey(st, IntValue(identifier)) # None

\* the users whose attribute equals the identifier but for case
AttrMatches(st, attr, identifier) == IExactHits(st, attr, identifier)

\* the first user, in the attributes' declared order, that matches
RECURSIVE FirstAttrMatch(_, _, _)
FirstAttrMatch(st, attrs, identifier) ==
    IF attrs = <<>> THEN None
    ELSE IF AttrMatches(st, Head(attrs), identifier) # {}
    THEN FirstUser(AttrMatches(st, Head(attrs), identifier))
    ELSE FirstAttrMatch(st, Tail(attrs), identifier)

\* C9: in every backend, get_user of a numeric-looking identifier that is no
\* user's primary key goes on to the identity attributes, in their declared
\* order, and returns the first user one of them matches but for case.
C9_NumericMissFallsBack ==
    \A b \in LookupBackends :
        (/\ got.op = "get_user"
         /\ is_numeric(got.text)
         /\ ~KeyMatches(StoreOf(b), got.text)
         /\ FirstAttrMatch(StoreOf(b), IdentityAttributes, got.text) # None)
            => got.rv[b] = RetEntity(FirstAttrMatch(StoreOf(b), IdentityAttributes, got.text))

\* C10: in every backend, get_user of an identifier that is no user's primary
\* key and matches no identity attribute returns None and raises nothing;
\* find_user, find_role and find_group return None on a miss.
C10_MissIsNone ==
    \A b \in LookupBackends :
        /\ (/\ got.op = "get_user"
            /\ ~KeyMatches(StoreOf(b), got.text)
            /\ FirstAttrMatch(StoreOf(b), IdentityAttributes, got.text) = None)
              => got.rv[b] = Ret("None")
        /\ (got.op = "find_user" /\ ~InList(got.text, UserEmails(StoreOf(b))))
              => got.rv[b] = Ret("None")
        /\ (got.op = "find_role" /\ ~InList(got.name, StoreOf(b).roles))
              => got.rv[b] = Ret("None")
        /\ (got.op = "find_group" /\ ~InList(got.name, StoreOf(b).groups))
              => got.rv[b] = Ret("None")

\* the backends whose users have a number as primary key (with ObjectId keys
\* no user's key is written as a number)
IntKeyBackends == {"sqlalchemy", "mongoengine", "peewee"}

\* a user other than the one with key k has the identifier as the value of an
\* identity attribute
OtherAttrMatch(st, k, identifier) ==
    \E i \in 1..Len(IdentityAttributes) :
        \E u \in 1..Len(st.users) :
            u # k /\ st.users[u][IdentityAttributes[i]] = identifier

\* C11: when the identifier reads as the primary key of a user, get_user
\* returns that user, also when another user has the identifier as the value
\* of an identity attribute: the key lookup takes precedence.
C11_KeyTakesPrecedence ==
    \A b \in IntKeyBackends :
        (got.op = "get_user" /\ KeyMatches(StoreOf(b), got.text))
            => got.rv[b] = RetEntity(IntValue(got.text))

C11_Witness ==
    /\ got.op = "get_user"
    /\ got.text = <<"2">>
    /\ \A b \in IntKeyBackends :
          /\ KeyMatches(StoreOf(b), got.text)
          /\ OtherAttrMatch(StoreOf(b), IntValue(got.text), got.text)
          /\ got.rv[b] = RetEntity(2)

(***************************************************************************)
(* Properties of find_or_create_role and find_or_create_group.             *)
(***************************************************************************)
\* the names and the descriptions of the collection the last call is about
LastNames(b) ==
    IF last.op = "find_or_create_role"
    THEN (IF b = "emb" THEN emb.roles ELSE lnk.roles)
    ELSE (IF b = "emb" THEN emb.groups ELSE lnk.groups)
LastDescriptions(b) ==
    IF last.op = "find_or_create_role"
    THEN (IF b = "emb" THEN emb.role_description ELSE lnk.role_description)
    ELSE (IF b = "emb" THEN emb.group_description ELSE lnk.group_description)

\* C12: find_or_create_role on a name that exists returns that role, changes
\* nothing (the new attributes are not applied) and creates nothing; on a name
\* that does not exist it creates one role with the name and the attributes
\* and returns it; two calls in a row with one name return the same entity;
\* afterwards exactly one role has the name.  Likewise find_or_create_group.
C12_FindOrCreateOnce ==
    last.op \in {"find_or_create_role", "find_or_create_group"}
        => \A b \in Backends :
              /\ last.before[b]
                    => /\ last.rv[b] = RetEntity(FirstIndex(LastNames(b), last.target.name))
                       /\ ~last.changed[b]
                       /\ last.calls[b] = 0
              /\ ~last.before[b]
                    => /\ last.rv[b] = RetEntity(Len(LastNames(b)))
                       /\ LastNames(b)[Len(LastNames(b))] = last.target.name
                       /\ LastDescriptions(b)[Len(LastNames(b))] = last.kw.description
                       /\ last.calls[b] = 1
              /\ Count(last.target.name, LastNames(b)) = 1
              /\ last.prev.op = last.op
                    => /\ last.prev.rv[b] = last.rv[b]
                       /\ ~last.changed[b]

C12_Witness ==
    /\ last.op = "find_or_create_role"
    /\ last.prev.op = "find_or_create_role"
    /\ ~last.prev.before.emb /\ ~last.prev.before.lnk
    /\ last.rv.emb = RetEntity(2) /\ last.rv.lnk = RetEntity(2)
    /\ last.kw.description # emb.role_description[2]
    /\ Len(emb.groups) = 2

UnresolvedIn(refs, names) ==
    \E i \in 1..Len(refs) : refs[i].isName /\ ~InList(refs[i].name, names)

\* C14: in every backend, create_user given a role or group name that matches
\* no role or group creates no role and no group, returns the user, and the
\* user's relationship list has a None entry for the name.
C14_UnresolvedNameIsNoneEntry ==
    [][(/\ last'.op = "create_user" /\ last' # last
        /\ UnresolvedIn(last'.kw.roles, emb.roles) \/ UnresolvedIn(last'.kw.groups, emb.groups))
          => /\ emb'.roles = emb.roles /\ emb'.groups = emb.groups
             /\ lnk'.roles = lnk.roles /\ lnk'.groups = lnk.groups
             /\ last'.rv.emb = RetEntity(Len(emb.users) + 1)
             /\ last'.rv.lnk = RetEntity(Len(lnk.users) + 1)
             /\ UnresolvedIn(last'.kw.roles, emb.roles)
                   => /\ InList(None, emb'.users[Len(emb'.users)].roles)
                      /\ BagIn(<<Len(lnk'.users), None>>, lnk'.UserRole)
             /\ UnresolvedIn(last'.kw.groups, emb.groups)
                   => /\ InList(None, emb'.users[Len(emb'.users)].groups)
                      /\ BagIn(<<Len(lnk'.users), None>>, lnk'.UserGroup)]_vars

\* the roles and groups among the arguments that exist, as their keys
SuppliedRoles ==
    {find_role(lnk, IF r.isName THEN r.name ELSE lnk.roles[r.id]) :
        r \in {last.kw.roles[i] : i \in 1..Len(last.kw.roles)}} \ {None}
SuppliedGroups ==
    {find_group(lnk, IF g.isName THEN g.name ELSE lnk.groups[g.id]) :
        g \in {last.kw.groups[i] : i \in 1..Len(last.kw.groups)}} \ {None}

\* C15: in the linked backend, create_user puts the user before it creates a
\* membership row for it: every row refers to a user that has been put, and
\* after the call each role and each group supplied has one row with the new
\* user.
C15_UserBeforeRows ==
    last.op = "create_user"
        => /\ \A row \in BagToSet(lnk.UserRole) \cup BagToSet(lnk.UserGroup) :
                 row[1] \in 1..Len(lnk.users)
           /\ \A r \in SuppliedRoles : CountRows(lnk.UserRole, <<Len(lnk.users), r>>) = 1
           /\ \A g \in SuppliedGroups : CountRows(lnk.UserGroup, <<Len(lnk.users), g>>) = 1

\* how many entries the role collection of user u has in backend b
NumRoles(b, u) ==
    IF b = "emb" THEN Len(emb.users[u].roles)
    ELSE LET rows == {x \in BagToSet(lnk.UserRole) : x[1] = u}
             RECURSIVE Sum(_)
             Sum(S) == IF S = {} THEN 0
                       ELSE LET x == CHOOSE y \in S : TRUE
                            IN  CountRows(lnk.UserRole, x) + Sum(S \ {x})
         IN  Sum(rows)

\* the user a fresh find_user(email=...) gives in backend b
Refetched(b, email) == IF b = "emb" THEN find_user(emb, email) ELSE Pw_find_user(lnk, email)

\* C16: in every backend, after create_role("admin") and a create_user with
\* roles=["admin"], the user that find_user gives has a role collection that
\* holds the admin role and nothing else; remove_role_from_user(user, "admin")
\* called next returns True, and the user fetched again has no role.
C16_CreateThenRemove ==
    \A b \in Backends :
        /\ (/\ last.op = "create_user"
            /\ last.kw.roles = <<RoleNameRef("admin")>>
            /\ find_role(emb, "admin") # None)
              => LET u == Refetched(b, last.user.text)
                 IN  /\ u # None
                     /\ RoleCount(b, u, find_role(emb, "admin")) = 1
                     /\ NumRoles(b, u) = 1
        /\ (/\ last.op = "remove_role_from_user"
            /\ last.target = RoleNameRef("admin")
            /\ last.prev.op = "create_user"
            /\ last.prev.kw.roles = <<RoleNameRef("admin")>>
            /\ find_role(emb, "admin") # None)
              => /\ last.rv[b] = True
                 /\ NumRoles(b, LastUser) = 0

C16_Witness ==
    /\ last.op = "remove_role_from_user"
    /\ last.target = RoleNameRef("admin")
    /\ ~last.user.isName
    /\ last.prev.op = "create_user"
    /\ last.prev.kw.roles = <<RoleNameRef("admin")>>
    /\ find_role(emb, "admin") # None
    /\ last.rv = Both(True)
    /\ Len(emb.users) = 2

(***************************************************************************)
(* Properties of delete_user.                                              *)
(***************************************************************************)
IsPrefix(s, t) == Len(s) <= Len(t) /\ SubSeq(t, 1, Len(s)) = s

\* C17: delete_user makes one adapter delete, of that user, and changes
\* nothing else: every membership row of the linked backend, every role,
\* every group and every other user stay as they were.  No operation removes
\* a role or a group.
C17_DeleteOnlyTheUser ==
    [][/\ (last'.op = "delete_user" /\ last' # last)
            => /\ last'.calls = Both(1)
               /\ emb' = [emb EXCEPT !.deleted = @ \cup {last'.user.id}]
               /\ lnk' = [lnk EXCEPT !.deleted = @ \cup {last'.user.id}]
               /\ last'.user.id \notin emb.deleted
       /\ IsPrefix(emb.roles, emb'.roles) /\ IsPrefix(emb.groups, emb'.groups)
       /\ IsPrefix(lnk.roles, lnk'.roles) /\ IsPrefix(lnk.groups, lnk'.groups)]_vars

\* a user that had a role row and a group row has been deleted, the other is there
C17_Witness ==
    /\ last.op = "delete_user"
    /\ \E r \in 1..Len(lnk.roles) : BagIn(<<last.user.id, r>>, lnk.UserRole)
    /\ \E g \in 1..Len(lnk.groups) : BagIn(<<last.user.id, g>>, lnk.UserGroup)
    /\ Pw_find_user(lnk, lnk.users[last.user.id].email) = None
    /\ LiveUsers # {}

\* the key of the user the last create_user made
Created(b) == IF b = "emb" THEN Len(emb.users) ELSE Len(lnk.users)

\* C18: create_user makes the user active when no `active` is given, and
\* gives it the caller's value when one is; in both backends.
C18_ActiveDefault ==
    last.op = "create_user"
        => \A b \in Backends :
              /\ last.kw.active = "unset" => ActiveNow(b, Created(b))
              /\ last.kw.active = "True" => ActiveNow(b, Created(b))
              /\ last.kw.active = "False" => ~ActiveNow(b, Created(b))

C18_Witness ==
    /\ last.op = "create_user"
    /\ last.kw.active = "unset"
    /\ last.rv = Both(RetEntity(2))
    /\ ~emb.users[1].active /\ ~lnk.users[1].active
    /\ emb.users[2].active /\ lnk.users[2].active

(***************************************************************************)
(* Properties of removal after create_user.                                *)
(***************************************************************************)
\* how often the last call's user holds the last call's role or group
LastCount(b) ==
    IF last.op \in RoleOps THEN RoleCount(b, LastUser, LastTarget)
    ELSE GroupCount(b, LastUser, LastTarget)

\* C19: when remove_role_from_user returns True the user no longer holds the
\* role, and the same call made again at once returns False; likewise
\* remove_user_from_group.  Also for a user that create_user was given the
\* same role more than once.
C19_RemovedIsGone ==
    (last.op \in {"remove_role_from_user", "remove_user_from_group"} /\ LastTarget # None)
        => \A b \in Backends :
              /\ last.rv[b] = True => LastCount(b) = 0
              /\ (last.prev.op = last.op /\ last.prev.rv[b] = True) => last.rv[b] = False

\* C20: in the linked backend create_user is all or nothing: when it ends in
\* an error, the store is as it was before the call (no new user, no new
\* membership row).
C20_CreateUserAllOrNothing ==
    (last.op = "create_user" /\ IsError(last.rv.lnk)) => ~last.changed.lnk

====
